---- MODULE Spec2Model ----
(***************************************************************************)
(* Model of src/ask.py: the multi-provider command-line chat client.       *)
(*                                                                         *)
(* Text that the program processes character by character (input lines,    *)
(* query tokens, system prompts, API keys) is a sequence of one-character  *)
(* strings, so that strip(), lower(), ' '.join() and the f-string          *)
(* composition are computed, not assumed.  Names the program only compares *)
(* (provider selectors, roles, model names, config keys) are plain         *)
(* strings.  A Python Optional is a sequence of length at most one:        *)
(* None is <<>> and a present value x is <<x>>.                            *)
(***************************************************************************)
EXTENDS Integers, Sequences, FiniteSets, TLC

VARIABLES
    args,                  \* the parsed command line (argparse namespace)
    available,             \* provider libraries that imported successfully
    env,                   \* the process environment, per config key
    file,                  \* ~/.ai_cli_config.json: None or its JSON text
    config,                \* AIClient.config
    provider,              \* AIClient.provider
    model,                 \* AIClient.model
    client,                \* AIClient.client: None or the provider handle
    conversation_history,  \* AIClient.conversation_history
    pc,                    \* position of main()
    error,                 \* the exception that ended construction, if any
    inputs,                \* the lines input() has returned so far
    eof,                   \* standard input is exhausted
    trace,                 \* the calls made on the client, with their outcome
    errors,                \* "Error: ..." lines printed for failed calls
    exit_code,             \* None while running, else the process exit code
    saved,                 \* the mapping last handed to json.dump, if any
    run                    \* number of process runs started so far

vars == << args, available, env, file, config, provider, model, client,
           conversation_history, pc, error, inputs, eof, trace, errors,
           exit_code, saved, run >>

(***************************************************************************)
(* Bounds.                                                                 *)
(***************************************************************************)
MaxLines == 3

MaxRuns == 2

(***************************************************************************)
(* Python values.                                                          *)
(***************************************************************************)
None == << >>

Some(x) == << x >>

\* truth value of an Optional[str] holding text: None and '' are falsy
Truthy(opt) == opt # None /\ opt[1] # << >>

\* truth value of an Optional[str] holding a name: None and '' are falsy
TruthyName(opt) == opt # None /\ opt[1] # ""

IsSpace(c) == c \in {" ", "\t", "\n", "\r"}

RECURSIVE LStrip(_)
LStrip(s) == IF s # << >> /\ IsSpace(Head(s)) THEN LStrip(Tail(s)) ELSE s

RECURSIVE RStrip(_)
RStrip(s) ==
    IF s # << >> /\ IsSpace(s[Len(s)])
    THEN RStrip(SubSeq(s, 1, Len(s) - 1))
    ELSE s

\* str.strip()
Strip(s) == RStrip(LStrip(s))

LowerChar(c) ==
    CASE c = "A" -> "a" [] c = "B" -> "b" [] c = "C" -> "c" [] c = "D" -> "d"
      [] c = "E" -> "e" [] c = "F" -> "f" [] c = "G" -> "g" [] c = "H" -> "h"
      [] c = "I" -> "i" [] c = "J" -> "j" [] c = "K" -> "k" [] c = "L" -> "l"
      [] c = "M" -> "m" [] c = "N" -> "n" [] c = "O" -> "o" [] c = "P" -> "p"
      [] c = "Q" -> "q" [] c = "R" -> "r" [] c = "S" -> "s" [] c = "T" -> "t"
      [] c = "U" -> "u" [] c = "V" -> "v" [] c = "W" -> "w" [] c = "X" -> "x"
      [] c = "Y" -> "y" [] c = "Z" -> "z" [] OTHER -> c

\* str.lower()
Lower(s) == [i \in 1..Len(s) |-> LowerChar(s[i])]

\* sep.join(tokens)
RECURSIVE Join(_, _)
Join(sep, tokens) ==
    IF tokens = << >> THEN << >>
    ELSE IF Len(tokens) = 1 THEN tokens[1]
    ELSE tokens[1] \o sep \o Join(sep, Tail(tokens))

(***************************************************************************)
(* Input alphabets.                                                        *)
(***************************************************************************)
Providers == {"gemini", "openai", "anthropic", "groq"}

ChatProviders == {"openai", "anthropic", "groq"}

hello == <<"h", "e", "l", "l", "o">>

hi == <<"h", "i">>

clear == <<"c", "l", "e", "a", "r">>

quit == <<"q", "u", "i", "t">>

exit == <<"e", "x", "i", "t">>

\* lines a user may type at the interactive prompt
Lines ==
    { << >>,
      <<" ">>,
      hello,
      <<" ", "h", "i", " ">>,
      clear,
      <<" ", "C", "l", "e", "a", "r", " ">>,
      quit,
      <<"E", "X", "I", "T">> }

\* values of the positional argument list args.query
Queries == { << >>, << hi, hello >>, << << >> >> }

\* values of args.system
Systems == { None, Some(<< >>), Some(<<"s", "p">>) }

\* reply texts a provider may return
Replies == { <<"o", "k">> }

(***************************************************************************)
(* AIClient.chat and AIClient.clear_history.                               *)
(*                                                                         *)
(* outcome is what the provider call does: "ok" (it returns reply),        *)
(* "error" (it raises an Exception) or "interrupt" (KeyboardInterrupt      *)
(* arrives while it blocks).  Each branch yields the request handed to the *)
(* provider and the conversation_history the call leaves behind.           *)
(***************************************************************************)
Turn(role, content) == [role |-> role, content |-> content]

Request(api, mdl, prompt, messages, system, max_tokens) ==
    [api |-> api, model |-> mdl, prompt |-> prompt, messages |-> messages,
     system |-> system, max_tokens |-> max_tokens]

\* f"{system_prompt}\n\n{message}"
Compose(system_prompt, message) == system_prompt \o <<"\n", "\n">> \o message

ChatGemini(history, message, system_prompt, outcome, reply) ==
    LET composed ==
            IF Truthy(system_prompt) /\ history = << >>
            THEN Compose(system_prompt[1], message)
            ELSE message
    IN  [sent    |-> Request("generate_content", None, composed, << >>, None, None),
         history |-> history]

\* the two turns appended in the wrong order
ChatOpenAI_Swapped(history, message, system_prompt, outcome, reply) ==
    LET messages ==
            (IF Truthy(system_prompt)
             THEN << Turn("system", system_prompt[1]) >>
             ELSE << >>)
            \o history \o << Turn("user", message) >>
    IN  [sent    |-> Request("chat.completions", model, << >>, messages, None,
                             None),
         history |-> IF outcome = "ok"
                     THEN history \o << Turn("assistant", reply),
                                        Turn("user", message) >>
                     ELSE history]

ChatOpenAI(history, message, system_prompt, outcome, reply) ==
    LET messages ==
            (IF Truthy(system_prompt)
             THEN << Turn("system", system_prompt[1]) >>
             ELSE << >>)
            \o history \o << Turn("user", message) >>
    IN  [sent    |-> Request("chat.completions", model, << >>, messages, None,
                             None),
         history |-> IF outcome = "ok"
                     THEN history \o << Turn("user", message),
                                        Turn("assistant", reply) >>
                     ELSE history]

ChatGroq(history, message, system_prompt, outcome, reply) ==
    LET messages ==
            (IF Truthy(system_prompt)
             THEN << Turn("system", system_prompt[1]) >>
             ELSE << >>)
            \o history \o << Turn("user", message) >>
    IN  [sent    |-> Request("chat.completions", model, << >>, messages, None,
                             None),
         history |-> IF outcome = "ok"
                     THEN history \o << Turn("user", message),
                                        Turn("assistant", reply) >>
                     ELSE history]

ChatAnthropic(history, message, system_prompt, outcome, reply) ==
    LET appended == Append(history, Turn("user", message))
    IN  [sent    |-> Request("messages", model, << >>, appended,
                             IF Truthy(system_prompt) THEN system_prompt
                                                      ELSE None,
                             Some(4096)),
         history |-> IF outcome = "ok"
                     THEN Append(appended, Turn("assistant", reply))
                     ELSE appended]

Chat(history, message, system_prompt, outcome, reply) ==
    IF provider = "gemini"
    THEN ChatGemini(history, message, system_prompt, outcome, reply)
    ELSE IF provider = "openai"
    THEN ChatOpenAI(history, message, system_prompt, outcome, reply)
    ELSE IF provider = "anthropic"
    THEN ChatAnthropic(history, message, system_prompt, outcome, reply)
    ELSE ChatGroq(history, message, system_prompt, outcome, reply)

\* a reset that leaves the last turn behind
ClearHistory_KeepsLast(history) ==
    IF history = << >> THEN << >> ELSE << history[Len(history)] >>

ClearHistory(history) == << >>

Outcomes == {"ok", "error", "interrupt"}

\* the record of one call on the client
ChatEvent(message, system_prompt, outcome, reply, sent) ==
    [op |-> "chat", message |-> message, system |-> system_prompt,
     outcome |-> outcome, reply |-> IF outcome = "ok" THEN reply ELSE << >>,
     sent |-> Some(sent)]

ClearEvent ==
    [op |-> "clear", message |-> << >>, system |-> None, outcome |-> "ok",
     reply |-> << >>, sent |-> None]

(***************************************************************************)
(* The credential store: the config file, the environment, load_config,    *)
(* save_config and configure_api_keys.                                     *)
(*                                                                         *)
(* A dict is a function on the set of its keys.  The JSON text of a dict   *)
(* is the sequence of its <<key, value>> members as json.dump writes them. *)
(***************************************************************************)
Keys == {"gemini_api_key", "openai_api_key", "anthropic_api_key",
         "groq_api_key"}

\* the order in which load_config and configure_api_keys visit the keys
KeyOrder == <<"gemini_api_key", "openai_api_key", "anthropic_api_key",
              "groq_api_key">>

EnvVar(key) ==
    CASE key = "gemini_api_key"    -> "GEMINI_API_KEY"
      [] key = "openai_api_key"    -> "OPENAI_API_KEY"
      [] key = "anthropic_api_key" -> "ANTHROPIC_API_KEY"
      [] key = "groq_api_key"      -> "GROQ_API_KEY"

EnvVars == {EnvVar(k) : k \in Keys}

EmptyDict == [k \in {} |-> << >>]

\* d[k] = v
DictSet(d, k, v) == [x \in DOMAIN d \cup {k} |-> IF x = k THEN v ELSE d[x]]

\* an assignment instead of setdefault
SetDefault_Overwrite(d, k, v) == DictSet(d, k, v)

\* d.setdefault(k, v)
SetDefault(d, k, v) == IF k \in DOMAIN d THEN d ELSE DictSet(d, k, v)

\* d.get(k): an Optional
DictGet(d, k) == IF k \in DOMAIN d THEN Some(d[k]) ELSE None

\* os.getenv(name, default)
Getenv(environ, name, default) ==
    IF environ[name] = None THEN default ELSE environ[name][1]

\* json.dump(d, f): the members of d, one after the other
RECURSIVE DumpFrom(_, _)
DumpFrom(d, i) ==
    IF i > Len(KeyOrder) THEN << >>
    ELSE (IF KeyOrder[i] \in DOMAIN d
          THEN << << KeyOrder[i], d[KeyOrder[i]] >> >>
          ELSE << >>) \o DumpFrom(d, i + 1)

JsonDump(d) == DumpFrom(d, 1)

\* json.load(f): a repeated member name keeps its last value
RECURSIVE JsonLoad(_)
JsonLoad(text) ==
    IF text = << >> THEN EmptyDict
    ELSE LET last == text[Len(text)]
             rest == JsonLoad(SubSeq(text, 1, Len(text) - 1))
         IN  DictSet(rest, last[1], last[2])

\* the dict load_config and configure_api_keys start from
ReadConfigFile(f) == IF f # None THEN JsonLoad(f[1]) ELSE EmptyDict

RECURSIVE FillFromEnv(_, _, _)
FillFromEnv(d, environ, i) ==
    IF i > Len(KeyOrder) THEN d
    ELSE FillFromEnv(
             SetDefault(d, KeyOrder[i],
                        Getenv(environ, EnvVar(KeyOrder[i]), << >>)),
             environ, i + 1)

\* AIClient.load_config: the value it leaves in self.config
LoadConfig(f, environ) == FillFromEnv(ReadConfigFile(f), environ, 1)

\* configure_api_keys: the dict it writes, given the text typed per key
RECURSIVE AskKeys(_, _, _)
AskKeys(d, typed, i) ==
    IF i > Len(KeyOrder) THEN d
    ELSE LET key_input == Strip(typed[KeyOrder[i]])
         IN  AskKeys(IF key_input # << >>
                     THEN DictSet(d, KeyOrder[i], key_input)
                     ELSE d,
                     typed, i + 1)

(***************************************************************************)
(* AIClient.initialize_client.                                             *)
(***************************************************************************)
DefaultModel(p) ==
    CASE p = "gemini"    -> "gemini-pro"
      [] p = "openai"    -> "gpt-4-turbo-preview"
      [] p = "anthropic" -> "claude-3-5-sonnet-20241022"
      [] p = "groq"      -> "llama-3.3-70b-versatile"

KeyOf(p) ==
    CASE p = "gemini"    -> "gemini_api_key"
      [] p = "openai"    -> "openai_api_key"
      [] p = "anthropic" -> "anthropic_api_key"
      [] p = "groq"      -> "groq_api_key"

\* the default wins over the override
ResolveModel_DefaultOnly(mdl, default) == Some(default)

\* self.model or default
ResolveModel(mdl, default) == IF TruthyName(mdl) THEN mdl ELSE Some(default)

\* a test for None instead of a test for falsiness
MissingKey_OnlyNone(api_key) == api_key = None

\* not api_key
MissingKey(api_key) == ~Truthy(api_key)

Handle(p, api_key, mdl) == [provider |-> p, api_key |-> api_key, model |-> mdl]

\* the outcome of initialize_client: the exception raised, if any, and the
\* values of self.client and self.model it leaves
InitializeClient(p, mdl, cfg, libs) ==
    IF p \notin Providers
    THEN [error |-> Some("ValueError"), client |-> None, model |-> mdl]
    ELSE IF p \notin libs
    THEN [error |-> Some("ImportError"), client |-> None, model |-> mdl]
    ELSE LET api_key == DictGet(cfg, KeyOf(p))
         IN  IF MissingKey(api_key)
             THEN [error |-> Some("ValueError"), client |-> None,
                   model |-> mdl]
             ELSE [error  |-> None,
                   client |-> Some(Handle(p, api_key[1],
                                   IF p = "gemini"
                                   THEN ResolveModel(mdl, DefaultModel(p))
                                   ELSE None)),
                   model  |-> ResolveModel(mdl, DefaultModel(p))]

(***************************************************************************)
(* main(), after the client has been constructed: one-shot mode and        *)
(* interactive_mode.                                                       *)
(***************************************************************************)
\* args.interactive or not args.query
WantsInteractive == args.interactive \/ args.query = << >>

\* the comparison without .lower()
IsQuit_CaseSensitive(user_input) == user_input \in {exit, quit}

IsQuit(user_input) == Lower(user_input) \in {exit, quit}

IsClear(user_input) == Lower(user_input) = clear

\* main, lines 285-287 and 289-291: a query was given and -i was not
OneShot(outcome, reply) ==
    /\ pc = "main"
    /\ ~WantsInteractive
    /\ LET query == Join(<<" ">>, args.query)
           r     == Chat(conversation_history, query, args.system, outcome,
                         reply)
       IN  /\ conversation_history' = r.history
           /\ trace' = Append(trace, ChatEvent(query, args.system, outcome,
                                               reply, r.sent))
    /\ errors' = IF outcome = "error" THEN errors + 1 ELSE errors
    /\ exit_code' = CASE outcome = "ok"        -> Some(0)
                       [] outcome = "error"     -> Some(1)
                       [] outcome = "interrupt" -> Some(130)
    /\ pc' = "done"
    /\ UNCHANGED << args, available, env, file, config, provider, model,
                    client, error, inputs, eof, saved, run >>

\* main, lines 282-283
EnterInteractive ==
    /\ pc = "main"
    /\ WantsInteractive
    /\ pc' = "interactive"
    /\ UNCHANGED << args, available, env, file, config, provider, model,
                    client, conversation_history, error, inputs, eof, trace,
                    errors, exit_code, saved, run >>

\* input() returns line
Reads(line) ==
    /\ pc = "interactive"
    /\ ~eof
    /\ Len(inputs) < MaxLines
    /\ inputs' = Append(inputs, line)

\* lines 221-224: a blank line re-prompts
InteractiveEmpty(line) ==
    /\ Reads(line)
    /\ Strip(line) = << >>
    /\ UNCHANGED << args, available, env, file, config, provider, model,
                    client, conversation_history, pc, error, eof, trace,
                    errors, exit_code, saved, run >>

\* lines 226-228
InteractiveQuit(line) ==
    /\ Reads(line)
    /\ Strip(line) # << >>
    /\ IsQuit(Strip(line))
    /\ pc' = "done"
    /\ exit_code' = Some(0)
    /\ UNCHANGED << args, available, env, file, config, provider, model,
                    client, conversation_history, error, eof, trace, errors,
                    saved, run >>

\* lines 230-233
InteractiveClear(line) ==
    /\ Reads(line)
    /\ Strip(line) # << >>
    /\ ~IsQuit(Strip(line))
    /\ IsClear(Strip(line))
    /\ conversation_history' = ClearHistory(conversation_history)
    /\ trace' = Append(trace, ClearEvent)
    /\ UNCHANGED << args, available, env, file, config, provider, model,
                    client, pc, error, eof, errors, exit_code, saved, run >>

\* lines 235-236, and the handlers of lines 238-242 for what chat raises
InteractiveChat(line, outcome, reply) ==
    /\ Reads(line)
    /\ Strip(line) # << >>
    /\ ~IsQuit(Strip(line))
    /\ ~IsClear(Strip(line))
    /\ LET user_input == Strip(line)
           r == Chat(conversation_history, user_input, args.system, outcome,
                     reply)
       IN  /\ conversation_history' = r.history
           /\ trace' = Append(trace, ChatEvent(user_input, args.system,
                                               outcome, reply, r.sent))
    /\ errors' = IF outcome = "error" THEN errors + 1 ELSE errors
    /\ pc' = IF outcome = "interrupt" THEN "done" ELSE pc
    /\ exit_code' = IF outcome = "interrupt" THEN Some(0) ELSE exit_code
    /\ UNCHANGED << args, available, env, file, config, provider, model,
                    client, error, eof, saved, run >>

\* line 221: input() raises EOFError, an Exception, so control passes to
\* the handler of line 241
InteractiveEOF ==
    /\ pc = "interactive"
    /\ eof' = TRUE
    /\ pc' = "except"
    /\ UNCHANGED << args, available, env, file, config, provider, model,
                    client, conversation_history, error, inputs, trace,
                    errors, exit_code, saved, run >>

\* lines 241-242: the handler prints the EOFError and the while loop goes
\* on to call input() again
InteractiveEOFHandled ==
    /\ pc = "except"
    /\ pc' = "interactive"
    /\ UNCHANGED << args, available, env, file, config, provider, model,
                    client, conversation_history, error, inputs, eof, trace,
                    errors, exit_code, saved, run >>

\* input() raises KeyboardInterrupt: lines 238-240
InteractiveInterrupt ==
    /\ pc = "interactive"
    /\ pc' = "done"
    /\ exit_code' = Some(0)
    /\ UNCHANGED << args, available, env, file, config, provider, model,
                    client, conversation_history, error, inputs, eof, trace,
                    errors, saved, run >>

\* one pass of the while loop that is not cut short by Ctrl-C at the prompt
LoopIteration ==
    \/ \E line \in Lines : InteractiveEmpty(line)
    \/ \E line \in Lines : InteractiveQuit(line)
    \/ \E line \in Lines : InteractiveClear(line)
    \/ \E line \in Lines, outcome \in Outcomes, reply \in Replies :
            InteractiveChat(line, outcome, reply)
    \/ InteractiveEOF
    \/ InteractiveEOFHandled

\* the environment of a session: every key set, no config file
SessionEnv == [v \in EnvVars |-> Some(<<"e", "1">>)]

SessionArgs ==
    [configure : {FALSE}, provider : Providers, model : {None},
     interactive : BOOLEAN, system : Systems, query : Queries]

\* main at line 282: AIClient(provider, model) has returned
Init ==
    /\ args \in SessionArgs
    /\ available = Providers
    /\ env = SessionEnv
    /\ file = None
    /\ config = LoadConfig(file, env)
    /\ provider = args.provider
    /\ LET r == InitializeClient(args.provider, args.model, config, available)
       IN  /\ client = r.client
           /\ model = r.model
           /\ error = r.error
    /\ conversation_history = << >>
    /\ pc = "main"
    /\ inputs = << >>
    /\ eof = FALSE
    /\ trace = << >>
    /\ errors = 0
    /\ exit_code = None
    /\ saved = None
    /\ run = 1

Next ==
    \/ \E outcome \in Outcomes, reply \in Replies : OneShot(outcome, reply)
    \/ EnterInteractive
    \/ \E line \in Lines : InteractiveEmpty(line)
    \/ \E line \in Lines : InteractiveQuit(line)
    \/ \E line \in Lines : InteractiveClear(line)
    \/ \E line \in Lines, outcome \in Outcomes, reply \in Replies :
            InteractiveChat(line, outcome, reply)
    \/ InteractiveEOF
    \/ InteractiveEOFHandled
    \/ InteractiveInterrupt

Spec == Init /\ [][Next]_vars

\* the interpreter keeps running the loop; nothing obliges a Ctrl-C
FairSpec == Spec /\ WF_vars(EnterInteractive) /\ WF_vars(LoopIteration)

(***************************************************************************)
(* main() from its start: --configure, or the construction of the client.  *)
(* The config file outlives the process, so a run may follow another.      *)
(***************************************************************************)
k1 == <<"k", "1">>

e1 == <<"e", "1">>

\* what the user may type at a prompt of configure_api_keys
KeyInputs == { << >>, <<" ">>, <<" ", "k", "2", " ">> }

\* the config file before the first run: absent, {}, or written earlier
FileChoices ==
    { None,
      Some(<< >>),
      Some(<< <<"groq_api_key", k1>> >>),
      Some(<< <<"openai_api_key", << >> >>, <<"gemini_api_key", k1>> >>) }

EnvChoices ==
    { [v \in EnvVars |-> None],
      [v \in EnvVars |-> Some(e1)],
      [v \in EnvVars |-> IF v = "GROQ_API_KEY" THEN Some(e1)
                         ELSE IF v = "ANTHROPIC_API_KEY" THEN Some(<< >>)
                         ELSE None] }

\* which of the four guarded imports of lines 14-36 succeeded
AvailableChoices ==
    { Providers, {"openai", "groq"}, {"gemini", "anthropic"} }

\* values of args.model
ModelArgs == { None, Some(""), Some("m1") }

CredArgs ==
    [configure : BOOLEAN, provider : Providers, model : ModelArgs,
     interactive : {FALSE}, system : {None}, query : {<< >>}]

\* main, lines 275-277: configure_api_keys
Configure(typed) ==
    /\ pc = "start"
    /\ args.configure
    /\ LET written == AskKeys(ReadConfigFile(file), typed, 1)
       IN  /\ file' = Some(JsonDump(written))
           /\ saved' = Some(written)
    /\ pc' = "done"
    /\ exit_code' = Some(0)
    /\ UNCHANGED << args, available, env, config, provider, model, client,
                    conversation_history, error, inputs, eof, trace, errors,
                    run >>

\* main, line 280 and lines 289-291: AIClient.__init__
Construct ==
    /\ pc = "start"
    /\ ~args.configure
    /\ provider' = args.provider
    /\ config' = LoadConfig(file, env)
    /\ LET r == InitializeClient(provider', args.model, config', available)
       IN  /\ client' = r.client
           /\ model' = r.model
           /\ error' = r.error
           /\ pc' = IF r.error = None THEN "main" ELSE "done"
           /\ exit_code' = IF r.error = None THEN exit_code ELSE Some(1)
    /\ UNCHANGED << args, available, env, file, conversation_history,
                    inputs, eof, trace, errors, saved, run >>

\* AIClient.save_config
SaveConfig ==
    /\ pc = "main"
    /\ file' = Some(JsonDump(config))
    /\ saved' = Some(config)
    /\ UNCHANGED << args, available, env, config, provider, model, client,
                    conversation_history, pc, error, inputs, eof, trace,
                    errors, exit_code, run >>

\* the process ends and the program is started again
NewRun ==
    /\ pc \in {"main", "done"}
    /\ run < MaxRuns
    /\ run' = run + 1
    /\ args' \in CredArgs
    /\ env' \in EnvChoices
    /\ pc' = "start"
    /\ config' = EmptyDict
    /\ provider' = ""
    /\ model' = None
    /\ client' = None
    /\ error' = None
    /\ exit_code' = None
    /\ UNCHANGED << available, file, conversation_history, inputs, eof,
                    trace, errors, saved >>

InitCred ==
    /\ args \in CredArgs
    /\ available \in AvailableChoices
    /\ env \in EnvChoices
    /\ file \in FileChoices
    /\ config = EmptyDict
    /\ provider = ""
    /\ model = None
    /\ client = None
    /\ error = None
    /\ conversation_history = << >>
    /\ pc = "start"
    /\ inputs = << >>
    /\ eof = FALSE
    /\ trace = << >>
    /\ errors = 0
    /\ exit_code = None
    /\ saved = None
    /\ run = 1

NextCred ==
    \/ \E typed \in [Keys -> KeyInputs] : Configure(typed)
    \/ Construct
    \/ SaveConfig
    \/ NewRun

SpecCred == InitCred /\ [][NextCred]_vars

(***************************************************************************)
(* Properties.                                                             *)
(***************************************************************************)
Last(seq) == seq[Len(seq)]

IsCall(ev) == ev.op = "chat"

NumCalls(tr) == Cardinality({i \in 1..Len(tr) : IsCall(tr[i])})

\* this step made a call on the provider
CallStep == Len(trace') = Len(trace) + 1 /\ IsCall(Last(trace'))

OnlySuccessfulChats ==
    \A i \in 1..Len(trace) : IsCall(trace[i]) /\ trace[i].outcome = "ok"

\* C1: for openai, groq and anthropic, after N successful chat() calls on a
\* fresh client, with no failed call and no clear_history() among them,
\* conversation_history has exactly 2N turns: the k-th user message followed
\* by the k-th reply, in the order the messages were sent.
C1_TwoTurnsPerExchange ==
    (provider \in ChatProviders /\ OnlySuccessfulChats) =>
        /\ Len(conversation_history) = 2 * Len(trace)
        /\ \A k \in 1..Len(trace) :
              /\ conversation_history[2 * k - 1] =
                     [role |-> "user", content |-> trace[k].message]
              /\ conversation_history[2 * k] =
                     [role |-> "assistant", content |-> trace[k].reply]

C1_Witness ==
    /\ provider = "openai"
    /\ OnlySuccessfulChats
    /\ Len(trace) = 3
    /\ trace[1].message # trace[2].message

\* C2: in interactive mode a chat() call that fails with a provider error
\* prints the error, leaves the loop running and leaves
\* conversation_history exactly as it was before the call.
C2_FailedCallKeepsTranscript ==
    [][ (pc = "interactive" /\ CallStep /\ Last(trace').outcome = "error") =>
            /\ errors' = errors + 1
            /\ pc' = "interactive"
            /\ conversation_history' = conversation_history ]_vars

\* C3: with gemini and a system prompt, the first chat() of a session sends
\* system_prompt + "\n\n" + message and the second chat() sends its
\* message alone.
C3_SystemPromptOnlyOnce ==
    ( /\ provider = "gemini"
      /\ Truthy(args.system)
      /\ Len(trace) >= 2
      /\ IsCall(trace[1]) /\ trace[1].outcome = "ok"
      /\ IsCall(trace[2]) /\ trace[2].outcome = "ok" ) =>
        /\ trace[1].sent[1].prompt =
               args.system[1] \o <<"\n", "\n">> \o trace[1].message
        /\ trace[2].sent[1].prompt = trace[2].message

\* the last two calls on the client were clear_history() and then a
\* successful chat()
ClearThenChat ==
    /\ Len(trace) >= 2
    /\ trace[Len(trace) - 1].op = "clear"
    /\ IsCall(Last(trace))
    /\ Last(trace).outcome = "ok"

JustThisExchange ==
    conversation_history =
        << [role |-> "user", content |-> Last(trace).message],
           [role |-> "assistant", content |-> Last(trace).reply] >>

\* C4 as stated: clear_history() followed by one successful chat() leaves
\* exactly two turns, the new message and its reply, for every provider.
C4_ClearThenChat == ClearThenChat => JustThisExchange

\* C4 as amended: clear_history() followed by one successful chat() leaves
\* exactly two turns, the new message and its reply, for the chat-style
\* providers openai, groq and anthropic, whatever the transcript held before.
C4_ClearThenChatAmended ==
    (provider \in ChatProviders /\ ClearThenChat) => JustThisExchange

C4_Witness ==
    /\ provider = "anthropic"
    /\ Len(trace) = 3
    /\ IsCall(trace[1])
    /\ ClearThenChat

BlankLines == { << >>, <<" ">> }

QuitLines == { <<"q", "u", "i", "t">>, <<"E", "X", "I", "T">> }

ClearLines == { <<"c", "l", "e", "a", "r">>,
                <<" ", "C", "l", "e", "a", "r", " ">> }

\* the message a line that is no command stands for
Trimmed(line) ==
    IF line = <<" ", "h", "i", " ">> THEN <<"h", "i">> ELSE line

DispatchedAsClaimed(line) ==
    IF line \in BlankLines
    THEN /\ trace' = trace
         /\ conversation_history' = conversation_history
         /\ pc' = "interactive"
    ELSE IF line \in QuitLines
    THEN /\ trace' = trace
         /\ pc' = "done"
    ELSE IF line \in ClearLines
    THEN /\ NumCalls(trace') = NumCalls(trace)
         /\ conversation_history' = << >>
         /\ pc' = "interactive"
    ELSE /\ CallStep
         /\ NumCalls(trace') = NumCalls(trace) + 1
         /\ Last(trace').message = Trimmed(line)

HelloClearQuit ==
    inputs = << <<"h", "e", "l", "l", "o">>, <<"c", "l", "e", "a", "r">>,
                <<"q", "u", "i", "t">> >>

\* C7: every line read at the prompt is dispatched on its trimmed,
\* lower-cased text: a blank line makes no call and changes nothing, exit or
\* quit ends the loop, clear empties the transcript without a call, any
\* other line makes exactly one call; and the lines hello, clear, quit make
\* exactly one call, leave an empty transcript and end the process with
\* exit code 0, with no error output when the call succeeds.
C7_Dispatch ==
    /\ [][ Len(inputs') = Len(inputs) + 1 =>
               DispatchedAsClaimed(Last(inputs')) ]_vars
    /\ [](HelloClearQuit =>
             /\ NumCalls(trace) = 1
             /\ conversation_history = << >>
             /\ pc = "done"
             /\ exit_code = <<0>>
             /\ (trace[1].outcome = "ok" => errors = 0 /\ ~eof))

C7_Witness ==
    /\ HelloClearQuit
    /\ pc = "done"
    /\ trace[1].outcome = "ok"
    /\ errors = 0

\* C9: chat() is never called with an empty message, neither in one-shot
\* mode nor in interactive mode.
C9_NoEmptyMessage ==
    \A i \in 1..Len(trace) : IsCall(trace[i]) => trace[i].message # << >>

\* C10: once standard input is exhausted the interactive loop ends.
C10_EndsAtEOF == eof ~> (pc = "done")

\* construction has been attempted in this run
Constructed == pc = "main" \/ (pc = "done" /\ ~args.configure)

HasEntry(f, key) == f # << >> /\ \E i \in 1..Len(f[1]) : f[1][i][1] = key

\* C5: when the config file has no entry for the selected provider and its
\* environment variable is unset, construction fails with a configuration
\* error and self.client is never set.
C5_EmptyCredentialFails ==
    ( /\ Constructed
      /\ ~HasEntry(file, KeyOf(args.provider))
      /\ env[EnvVar(KeyOf(args.provider))] = << >> ) =>
        /\ client = << >>
        /\ error \in { <<"ValueError">>, <<"ImportError">> }
        /\ pc = "done"
        /\ exit_code = <<1>>

C5_Witness ==
    /\ Constructed
    /\ ~HasEntry(file, KeyOf(args.provider))
    /\ env[EnvVar(KeyOf(args.provider))] = << >>
    /\ args.provider \in available
    /\ error = <<"ValueError">>

ClaimedDefault(p) ==
    CASE p = "groq"      -> "llama-3.3-70b-versatile"
      [] p = "anthropic" -> "claude-3-5-sonnet-20241022"
      [] p = "openai"    -> "gpt-4-turbo-preview"
      [] p = "gemini"    -> "gemini-pro"

ModelIsFixed == [][ (pc = "main" /\ pc' = "main") => model' = model ]_vars

\* C6 as stated: a constructed client's model is the override whenever one
\* is given, else the provider's default.
C6_ModelOverride ==
    pc = "main" =>
        model = IF args.model # << >> THEN args.model
                ELSE << ClaimedDefault(args.provider) >>

\* C6 as amended: a constructed client's model is the override whenever a
\* non-empty one is given, and the provider's default when the override is
\* absent or the empty string; it does not change afterwards.
C6_ModelOverrideAmended ==
    /\ [](pc = "main" =>
             model = IF args.model # << >> /\ args.model # <<"">>
                     THEN args.model
                     ELSE << ClaimedDefault(args.provider) >>)
    /\ ModelIsFixed

C6_Witness ==
    /\ pc = "main"
    /\ args.model = <<"m1">>
    /\ model = <<"m1">>
    /\ saved # << >>

\* C8: after a mapping has been saved, a load yields the saved value for
\* every recognized key the mapping holds, and for every other recognized
\* key the value of its environment variable, or '' when that is unset.
C8_SaveLoadRoundTrip ==
    (Constructed /\ saved # << >>) =>
        /\ DOMAIN config = Keys
        /\ \A k \in Keys :
              config[k] = IF k \in DOMAIN saved[1] THEN saved[1][k]
                          ELSE IF env[EnvVar(k)] = << >> THEN << >>
                          ELSE env[EnvVar(k)][1]

C8_Witness ==
    /\ Constructed
    /\ saved # << >>
    /\ "groq_api_key" \in DOMAIN saved[1]
    /\ env["GROQ_API_KEY"] # << >>
    /\ config["groq_api_key"] # env["GROQ_API_KEY"][1]
    /\ "openai_api_key" \notin DOMAIN saved[1]
    /\ env["OPENAI_API_KEY"] # << >>
====
